---- MODULE Spec2Model ----
(***************************************************************************)
(* A model of sonata-codec-mp3/src/id3v2/mod.rs: the ID3v2 tag reader.     *)
(*                                                                         *)
(* Bytes are integers 0..255.  A u32 is the set of its set bit positions   *)
(* (a subset of 0..31), so that the 32-bit operations |, &, <<, >> keep    *)
(* their width: bits shifted past position 31 are lost.                    *)
(*                                                                         *)
(* Every reading function takes the state of the reader it reads from and  *)
(* returns a record [st, s, val, ...]: st is "ok" or the kind of failure   *)
(* ("io": a failed read of the underlying source, "decode", "unsupported": *)
(* the two errors of sonata_core::errors, "abort": a panic), s the state   *)
(* of the reader after the call and val the value returned.                *)
(***************************************************************************)
EXTENDS Integers, Sequences, FiniteSets, TLC

VARIABLES
    reader,           \* the byte source and the streams wrapped around it
    overflow_checks,  \* the build: TRUE with overflow checks (debug), FALSE without (release)
    pc,               \* where the caller is
    call,             \* the operation applied last, with its arguments
    ret,              \* what that operation returned
    out,              \* the bytes the successful read calls have delivered so far
    tag,              \* read_id3v2's locals: the Header and min_frame_size
    hist              \* history of the run, for the properties only

vars == <<reader, overflow_checks, pc, call, ret, out, tag, hist>>

(***************************************************************************)
(* Bounds of the model.                                                    *)
(***************************************************************************)
\* Longest input of the syncsafe decoder (5 bytes are read for 32 bits).
MaxSyncLen == 5
\* Longest raw input of the unsynchronisation filter.
MaxRaw == 4
\* Longest buffer of a bulk read, and most bytes skipped by one call.
MaxBuf == 3
MaxSkip == 2
\* Largest Header.size of a tag, and the longest single read or skip of a
\* frame reader beside a read of the minimum frame size.
MaxTagSize == 12
MaxFrameOp == 3

(***************************************************************************)
(* 32-bit words.                                                           *)
(***************************************************************************)
Byte == 0..255

Pow2(n) == 2 ^ n

\* The bits of a non-negative integer below 2^31.
Bits(x) == {i \in 0..30 : x >= Pow2(i) /\ (x \div Pow2(i)) % 2 = 1}

\* The integer a word stands for (defined below 2^31, bit 31 not set).
RECURSIVE ToInt(_)
ToInt(w) == IF w = {} THEN 0
            ELSE LET i == CHOOSE j \in w : TRUE IN Pow2(i) + ToInt(w \ {i})

AllOnes == 0..31                                   \* 0xffffffff
Shl(w, n) == {i + n : i \in w} \cap (0..31)        \* w << n, n in 0..31
Shr(w, n) == {i - n : i \in w} \cap (0..31)        \* w >> n, n in 0..31
BitAnd(a, b) == ToInt(Bits(a) \cap Bits(b))        \* a & b on integers

(***************************************************************************)
(* The byte source (sonata_core::io::Bytestream) and the bounded stream    *)
(* (sonata_core::io::ScopedStream).  Their code is not part of the file    *)
(* modelled here; they follow the collaborator contract: read one byte,    *)
(* read into a buffer of a given length, skip, report the bytes remaining  *)
(* before the bound; a read past the bound fails.                          *)
(*                                                                         *)
(* reader = [data, pos, scoped, len, read, unsync, byte]:                  *)
(*   data, pos     the source's bytes and how many of them are consumed;   *)
(*   scoped        whether a ScopedStream is wrapped around the source;    *)
(*   len, read     the ScopedStream's bound and its count of bytes read;   *)
(*   unsync        whether an UnsyncStream is wrapped around that;         *)
(*   byte          UnsyncStream.byte, the last byte it observed.           *)
(***************************************************************************)
Source(data) ==
    [data |-> data, pos |-> 0, scoped |-> FALSE, len |-> 0, read |-> 0,
     unsync |-> FALSE, byte |-> 0]

Ok(s, v) == [st |-> "ok", s |-> s, val |-> v]
Err(kind, s) == [st |-> kind, s |-> s, val |-> 0]

Source_read_byte(s) ==
    IF s.pos < Len(s.data)
    THEN Ok([s EXCEPT !.pos = s.pos + 1], s.data[s.pos + 1])
    ELSE Err("io", s)

\* A bulk read that meets the end of the source fails having consumed what was left.
Source_read_buf_bytes(s, n) ==
    IF s.pos + n <= Len(s.data)
    THEN Ok([s EXCEPT !.pos = s.pos + n], SubSeq(s.data, s.pos + 1, s.pos + n))
    ELSE Err("io", [s EXCEPT !.pos = Len(s.data)])

Source_ignore_bytes(s, n) ==
    IF s.pos + n <= Len(s.data)
    THEN Ok([s EXCEPT !.pos = s.pos + n], 0)
    ELSE Err("io", [s EXCEPT !.pos = Len(s.data)])

\* ScopedStream::new(inner, len)
ScopedStream_new(s, len) == [s EXCEPT !.scoped = TRUE, !.len = len, !.read = 0]

\* The ScopedStream counts what the source consumed, also in a failed read.
ScopedCount(s, r) == [r EXCEPT !.s.read = s.read + (r.s.pos - s.pos)]

ScopedStream_read_byte(s) ==
    IF s.len - s.read < 1 THEN Err("io", s)
    ELSE ScopedCount(s, Source_read_byte(s))

ScopedStream_read_buf_bytes(s, n) ==
    IF s.len - s.read < n THEN Err("io", s)
    ELSE ScopedCount(s, Source_read_buf_bytes(s, n))

ScopedStream_ignore_bytes(s, n) ==
    IF s.len - s.read < n THEN Err("io", s)
    ELSE ScopedCount(s, Source_ignore_bytes(s, n))

\* FiniteStream::bytes_available of the ScopedStream
ScopedStream_bytes_available(s) == s.len - s.read

\* The reader below the UnsyncStream (UnsyncStream.inner), or the reader itself.
inner_read_byte(s) ==
    IF s.scoped THEN ScopedStream_read_byte(s) ELSE Source_read_byte(s)

inner_read_buf_bytes(s, n) ==
    IF s.scoped THEN ScopedStream_read_buf_bytes(s, n) ELSE Source_read_buf_bytes(s, n)

inner_ignore_bytes(s, n) ==
    IF s.scoped THEN ScopedStream_ignore_bytes(s, n) ELSE Source_ignore_bytes(s, n)

(***************************************************************************)
(* UnsyncStream: the streaming unsynchronisation filter.                   *)
(***************************************************************************)
\* UnsyncStream::new(inner)
UnsyncStream_new(s) == [s EXCEPT !.unsync = TRUE, !.byte = 0]

UnsyncStream_read_byte(s) ==
    LET last == s.byte
        with_next(r2) ==
            IF r2.st # "ok" THEN Err(r2.st, r2.s)
            ELSE Ok([r2.s EXCEPT !.byte = r2.val], r2.val)
        with_byte(r1) ==
            IF r1.st # "ok" THEN Err(r1.st, r1.s)
            ELSE IF last = 255 /\ r1.val = 0
                 THEN with_next(inner_read_byte([r1.s EXCEPT !.byte = r1.val]))
                 ELSE Ok([r1.s EXCEPT !.byte = r1.val], r1.val)
    IN  with_byte(inner_read_byte(s))

\* n successive self.read_byte()? calls, the first failure ending them:
\* the body of read_double_bytes, read_triple_bytes and read_quad_bytes.
RECURSIVE UnsyncStream_read_bytes(_, _, _)
UnsyncStream_read_bytes(s, n, acc) ==
    LET with_byte(r) ==
            IF r.st # "ok" THEN Err(r.st, r.s)
            ELSE UnsyncStream_read_bytes(r.s, n - 1, Append(acc, r.val))
    IN  IF n = 0 THEN Ok(s, acc) ELSE with_byte(UnsyncStream_read_byte(s))

UnsyncStream_read_double_bytes(s) == UnsyncStream_read_bytes(s, 2, <<>>)
UnsyncStream_read_triple_bytes(s) == UnsyncStream_read_bytes(s, 3, <<>>)
UnsyncStream_read_quad_bytes(s) == UnsyncStream_read_bytes(s, 4, <<>>)

\* The in-place loop of read_buf_bytes, `while src < len - 1`; src and dst
\* are the 0-based cursors, buf[i + 1] is the code's buf[i].
RECURSIVE read_buf_loop(_, _, _)
read_buf_loop(buf, src, dst) ==
    IF src < Len(buf) - 1
    THEN LET buf1 == [buf EXCEPT ![dst + 1] = buf[src + 1]]
             src1 == src + 1
         IN  read_buf_loop(buf1,
                           IF buf1[src1] = 255 /\ buf1[src1 + 1] = 0 THEN src1 + 1 ELSE src1,
                           dst + 1)
    ELSE [buf |-> buf, src |-> src, dst |-> dst]

\* `while dst < len { buf[dst] = self.read_byte()?; dst += 1 }`
RECURSIVE read_buf_top_up(_, _, _)
read_buf_top_up(s, buf, dst) ==
    LET with_byte(r) ==
            IF r.st # "ok" THEN Err(r.st, r.s)
            ELSE read_buf_top_up(r.s, [buf EXCEPT ![dst + 1] = r.val], dst + 1)
    IN  IF dst < Len(buf) THEN with_byte(UnsyncStream_read_byte(s)) ELSE Ok(s, buf)

UnsyncStream_read_buf_bytes(s, len) ==
    LET \* `if src < len { buf[dst] = buf[src]; dst += 1; }` and the top-up
        after_loop(s1, c) ==
            IF c.src < len
            THEN read_buf_top_up(s1, [c.buf EXCEPT ![c.dst + 1] = c.buf[c.src + 1]],
                                 c.dst + 1)
            ELSE read_buf_top_up(s1, c.buf, c.dst)
        with_buf(r) ==
            IF r.st # "ok" THEN Err(r.st, r.s)
            ELSE after_loop([r.s EXCEPT !.byte = r.val[len]],
                            read_buf_loop(r.val,
                                          IF s.byte = 255 /\ r.val[1] = 0 THEN 1 ELSE 0,
                                          0))
    IN  IF len > 0 THEN with_buf(inner_read_buf_bytes(s, len)) ELSE Ok(s, <<>>)

\* `for _ in 0..count { self.inner.read_byte()?; }`
RECURSIVE UnsyncStream_ignore_bytes(_, _)
UnsyncStream_ignore_bytes(s, count) ==
    LET with_byte(r) ==
            IF r.st # "ok" THEN Err(r.st, r.s)
            ELSE UnsyncStream_ignore_bytes(r.s, count - 1)
    IN  IF count = 0 THEN Ok(s, 0) ELSE with_byte(inner_read_byte(s))

\* impl FiniteStream for UnsyncStream: bytes_available is the inner stream's.
UnsyncStream_bytes_available(s) == ScopedStream_bytes_available(s)

(***************************************************************************)
(* The Bytestream a function is generic over: the UnsyncStream when one is *)
(* wrapped around the reader, otherwise the reader below it.               *)
(***************************************************************************)
read_byte(s) == IF s.unsync THEN UnsyncStream_read_byte(s) ELSE inner_read_byte(s)

read_buf_bytes(s, n) ==
    IF s.unsync THEN UnsyncStream_read_buf_bytes(s, n) ELSE inner_read_buf_bytes(s, n)

ignore_bytes(s, n) ==
    IF s.unsync THEN UnsyncStream_ignore_bytes(s, n) ELSE inner_ignore_bytes(s, n)

bytes_available(s) ==
    IF s.unsync THEN UnsyncStream_bytes_available(s) ELSE ScopedStream_bytes_available(s)

\* Bytestream::read_u8, read_triple_bytes, read_u16, read_u32 (provided by
\* the trait on top of read_byte; the integers are big-endian, as ID3v2's are).
read_u8(s) == read_byte(s)

RECURSIVE read_bytes(_, _, _)
read_bytes(s, n, acc) ==
    LET with_byte(r) ==
            IF r.st # "ok" THEN Err(r.st, r.s)
            ELSE read_bytes(r.s, n - 1, Append(acc, r.val))
    IN  IF n = 0 THEN Ok(s, acc) ELSE with_byte(read_byte(s))

read_triple_bytes(s) == read_bytes(s, 3, <<>>)

read_u16(s) ==
    LET with_bytes(r) ==
            IF r.st # "ok" THEN r ELSE Ok(r.s, r.val[1] * 256 + r.val[2])
    IN  with_bytes(read_bytes(s, 2, <<>>))

\* A u32 as a word: the four bytes, most significant first.
read_u32(s) ==
    LET with_bytes(r) ==
            IF r.st # "ok" THEN r
            ELSE Ok(r.s, Shl(Bits(r.val[1]), 24) \cup Shl(Bits(r.val[2]), 16)
                         \cup Shl(Bits(r.val[3]), 8) \cup Bits(r.val[4]))
    IN  with_bytes(read_bytes(s, 4, <<>>))

(***************************************************************************)
(* read_syncsafe_leq32                                                     *)
(***************************************************************************)
\* The loop `while bits_read < bit_width`.  bits_read and bit_width are u32:
\* when bits_read passes bit_width, `bit_width - bits_read` overflows.  With
\* overflow checks the subtraction panics; without them it wraps, and the
\* shift takes the wrapped amount modulo 32.  ovf records that it happened.
RECURSIVE syncsafe_loop_unmasked(_, _, _, _, _, _)
syncsafe_loop_unmasked(s, bit_width, bits_read, result, checks, ovf) ==
    LET with_byte(bits_read1, r) ==
            IF r.st # "ok" THEN [st |-> r.st, s |-> r.s, val |-> {}, ovf |-> ovf]
            ELSE IF bit_width - bits_read1 < 0 /\ checks
                 THEN [st |-> "abort", s |-> r.s, val |-> {}, ovf |-> TRUE]
                 ELSE syncsafe_loop_unmasked(r.s, bit_width, bits_read1,
                          result \cup Shl(Bits(r.val), (bit_width - bits_read1) % 32),
                          checks, ovf \/ bit_width - bits_read1 < 0)
    IN  IF bits_read < bit_width
        THEN with_byte(bits_read + 7, read_u8(s))
        ELSE [st |-> "ok", s |-> s, ovf |-> ovf,
              val |-> result \cap Shr(AllOnes, 32 - bit_width)]

RECURSIVE syncsafe_loop(_, _, _, _, _, _)
syncsafe_loop(s, bit_width, bits_read, result, checks, ovf) ==
    LET with_byte(bits_read1, r) ==
            IF r.st # "ok" THEN [st |-> r.st, s |-> r.s, val |-> {}, ovf |-> ovf]
            ELSE IF bit_width - bits_read1 < 0 /\ checks
                 THEN [st |-> "abort", s |-> r.s, val |-> {}, ovf |-> TRUE]
                 ELSE syncsafe_loop(r.s, bit_width, bits_read1,
                          result \cup Shl(Bits(BitAnd(r.val, 127)),
                                          (bit_width - bits_read1) % 32),
                          checks, ovf \/ bit_width - bits_read1 < 0)
    IN  IF bits_read < bit_width
        THEN with_byte(bits_read + 7, read_u8(s))
        ELSE [st |-> "ok", s |-> s, ovf |-> ovf,
              val |-> result \cap Shr(AllOnes, 32 - bit_width)]

read_syncsafe_leq32(s, bit_width, checks) ==
    syncsafe_loop(s, bit_width, 0, {}, checks, FALSE)

(***************************************************************************)
(* SpecSyncsafe: read_syncsafe_leq32 applied to every input drawn from     *)
(* SyncBytes, for the two widths the decoder uses, in both builds.         *)
(***************************************************************************)
SyncBytes == {0, 1, 2, 127, 255}
SyncWidths == {28, 32}

SeqsUpTo(S, n) == UNION {[1..k -> S] : k \in 0..n}

NoCall == [op |-> "none", arg |-> 0]
NoTag == [k |-> "none"]
NoRet == [st |-> "none"]
NoHist == [k |-> "none"]

SyncInit ==
    /\ reader \in {Source(d) : d \in SeqsUpTo(SyncBytes, MaxSyncLen)}
    /\ overflow_checks \in BOOLEAN
    /\ pc = "start"
    /\ call = NoCall
    /\ ret = NoRet
    /\ out = <<>>
    /\ tag = NoTag
    /\ hist = NoHist

Call_read_syncsafe_leq32 ==
    /\ pc = "start"
    /\ \E bit_width \in SyncWidths :
         LET r == read_syncsafe_leq32(reader, bit_width, overflow_checks)
         IN  /\ call' = [op |-> "read_syncsafe_leq32", arg |-> bit_width]
             /\ ret' = [st |-> r.st, val |-> r.val, ovf |-> r.ovf]
             /\ reader' = r.s
    /\ pc' = "done"
    /\ UNCHANGED <<overflow_checks, out, tag, hist>>

SyncNext == Call_read_syncsafe_leq32

SpecSyncsafe == SyncInit /\ [][SyncNext]_vars

SyncCalled == pc = "done" /\ call.op = "read_syncsafe_leq32"

\* ceil(bit_width / 7)
SyncsafeBytes(bit_width) == (bit_width + 6) \div 7

\* C6: for the widths 28 and 32, read_syncsafe_leq32 consumes exactly
\* ceil(bit_width/7) bytes when it returns a value, fails only when a byte read
\* of the source fails, and no arithmetic step of it overflows or aborts.
C6_SyncsafeNoOverflow ==
    SyncCalled =>
        /\ ret.st \in {"ok", "io"}
        /\ ~ret.ovf
        /\ ret.st = "ok" => reader.pos = SyncsafeBytes(call.arg)
        /\ ret.st = "io" => Len(reader.data) < SyncsafeBytes(call.arg)

\* The part of C6 that holds of the width 28 alone.
Syncsafe28NoOverflow ==
    SyncCalled /\ call.arg = 28 =>
        /\ ret.st \in {"ok", "io"}
        /\ ~ret.ovf
        /\ ret.st = "ok" => reader.pos = 4
        /\ ret.st = "io" => Len(reader.data) < 4

\* (b0&0x7F)<<21 | (b1&0x7F)<<14 | (b2&0x7F)<<7 | (b3&0x7F), by arithmetic.
Syncsafe28Value(b) ==
    (b[1] % 128) * 2097152 + (b[2] % 128) * 16384 + (b[3] % 128) * 128 + (b[4] % 128)

\* C7: for bit_width 28 and every four input bytes the result is the low 7
\* bits of each byte, most significant group first; it is below 2^28;
\* [0x7F,0x7F,0x7F,0x7F] gives 0x0FFFFFFF and [0,0,2,1] gives 257.
C7_Syncsafe28Value ==
    SyncCalled /\ call.arg = 28 /\ Len(reader.data) >= 4 =>
        /\ ret.st = "ok"
        /\ ret.val \subseteq 0..27
        /\ ToInt(ret.val) = Syncsafe28Value(reader.data)
        /\ (SubSeq(reader.data, 1, 4) = <<127, 127, 127, 127>> => ToInt(ret.val) = 268435455)
        /\ (SubSeq(reader.data, 1, 4) = <<0, 0, 2, 1>> => ToInt(ret.val) = 257)

C7_Witness ==
    /\ SyncCalled /\ call.arg = 28 /\ Len(reader.data) >= 4
    /\ SubSeq(reader.data, 1, 4) = <<255, 127, 2, 1>>
    /\ ret.st = "ok" /\ ToInt(ret.val) = 268419329

(***************************************************************************)
(* read_id3v2_header                                                       *)
(***************************************************************************)
ID3 == <<73, 68, 51>>    \* b"ID3"

NoHeader ==
    [major_version |-> 0, minor_version |-> 0, size |-> 0,
     unsynchronisation |-> FALSE, has_extended_header |-> FALSE,
     experimental |-> FALSE, has_footer |-> FALSE]

\* The validation of the version numbers and of the v2.2 compression flag.
header_validate_range_first(major_version, minor_version, flags) ==
    IF major_version < 2 \/ major_version > 4 THEN "unsupported"
    ELSE IF major_version = 255 \/ minor_version = 255 THEN "decode"
    ELSE IF major_version = 2 /\ BitAnd(flags, 64) # 0 THEN "unsupported"
    ELSE "ok"

\* The same without the test of the range of the major version.
header_validate_any_major(major_version, minor_version, flags) ==
    IF major_version = 255 \/ minor_version = 255 THEN "decode"
    ELSE IF major_version = 2 /\ BitAnd(flags, 64) # 0 THEN "unsupported"
    ELSE "ok"

header_validate(major_version, minor_version, flags) ==
    IF major_version = 255 \/ minor_version = 255 THEN "decode"
    ELSE IF major_version < 2 \/ major_version > 4 THEN "unsupported"
    ELSE IF major_version = 2 /\ BitAnd(flags, 64) # 0 THEN "unsupported"
    ELSE "ok"

\* The flags of the header, each read when the major version defines its bit.
header_flags_ungated(header, flags) ==
    [header EXCEPT
        !.unsynchronisation = BitAnd(flags, 128) # 0,
        !.has_extended_header = BitAnd(flags, 64) # 0,
        !.experimental = BitAnd(flags, 32) # 0,
        !.has_footer = BitAnd(flags, 16) # 0]

header_flags(header, flags) ==
    LET h2 == IF header.major_version >= 2
              THEN [header EXCEPT !.unsynchronisation = BitAnd(flags, 128) # 0]
              ELSE header
        h3 == IF header.major_version >= 3
              THEN [h2 EXCEPT !.has_extended_header = BitAnd(flags, 64) # 0,
                              !.experimental = BitAnd(flags, 32) # 0]
              ELSE h2
    IN  IF header.major_version >= 4
        THEN [h3 EXCEPT !.has_footer = BitAnd(flags, 16) # 0]
        ELSE h3

\* The same, the size decoded as a syncsafe integer of 32 bits.
read_id3v2_header_size_of_five_bytes(s, checks) ==
    LET with_size(major_version, minor_version, flags, size) ==
            IF size.st # "ok" THEN Err(size.st, size.s)
            ELSE LET header == [NoHeader EXCEPT !.major_version = major_version,
                                                !.minor_version = minor_version,
                                                !.size = ToInt(size.val)]
                     valid == header_validate(major_version, minor_version, flags)
                 IN  IF valid # "ok" THEN Err(valid, size.s)
                     ELSE Ok(size.s, header_flags(header, flags))
        with_flags(major_version, minor_version, flags) ==
            IF flags.st # "ok" THEN Err(flags.st, flags.s)
            ELSE with_size(major_version, minor_version, flags.val,
                           read_syncsafe_leq32(flags.s, 32, checks))
        with_minor_version(major_version, minor_version) ==
            IF minor_version.st # "ok" THEN Err(minor_version.st, minor_version.s)
            ELSE with_flags(major_version, minor_version.val, read_u8(minor_version.s))
        with_major_version(major_version) ==
            IF major_version.st # "ok" THEN Err(major_version.st, major_version.s)
            ELSE with_minor_version(major_version.val, read_u8(major_version.s))
        with_marker(marker) ==
            IF marker.st # "ok" THEN Err(marker.st, marker.s)
            ELSE IF marker.val # ID3 THEN Err("unsupported", marker.s)
            ELSE with_major_version(read_u8(marker.s))
    IN  with_marker(read_triple_bytes(s))

read_id3v2_header(s, checks) ==
    LET with_size(major_version, minor_version, flags, size) ==
            IF size.st # "ok" THEN Err(size.st, size.s)
            ELSE LET header == [NoHeader EXCEPT !.major_version = major_version,
                                                !.minor_version = minor_version,
                                                !.size = ToInt(size.val)]
                     valid == header_validate(major_version, minor_version, flags)
                 IN  IF valid # "ok" THEN Err(valid, size.s)
                     ELSE Ok(size.s, header_flags(header, flags))
        with_flags(major_version, minor_version, flags) ==
            IF flags.st # "ok" THEN Err(flags.st, flags.s)
            ELSE with_size(major_version, minor_version, flags.val,
                           read_syncsafe_leq32(flags.s, 28, checks))
        with_minor_version(major_version, minor_version) ==
            IF minor_version.st # "ok" THEN Err(minor_version.st, minor_version.s)
            ELSE with_flags(major_version, minor_version.val, read_u8(minor_version.s))
        with_major_version(major_version) ==
            IF major_version.st # "ok" THEN Err(major_version.st, major_version.s)
            ELSE with_minor_version(major_version.val, read_u8(major_version.s))
        with_marker(marker) ==
            IF marker.st # "ok" THEN Err(marker.st, marker.s)
            ELSE IF marker.val # ID3 THEN Err("unsupported", marker.s)
            ELSE with_major_version(read_u8(marker.s))
    IN  with_marker(read_triple_bytes(s))

(***************************************************************************)
(* SpecHeader: read_id3v2_header applied to headers drawn from the sets    *)
(* below, whole or cut short.                                              *)
(***************************************************************************)
HeaderLen == 3 + 1 + 1 + 1 + 4    \* magic, major, minor, flags, size
HdrMagics == {ID3, <<73, 68, 52>>, <<84, 65, 71>>}
HdrMajors == {0, 1, 2, 3, 4, 5, 255}
HdrMinors == {0, 1, 255}
HdrFlags == {16 * k : k \in 0..15} \cup {15, 191, 255}
HdrSizes == {<<0, 0, 0, 0>>, <<0, 0, 7, 104>>, <<0, 0, 2, 1>>,
             <<127, 127, 127, 127>>, <<255, 255, 255, 255>>, <<128, 0, 0, 1>>}

\* What follows a header in the source: the first bytes of a body.
HdrTrailer == <<255, 0, 73>>

HeaderBytes(magic, major, minor, flags, size) ==
    magic \o <<major, minor, flags>> \o size

\* A whole header of the sets above, a valid header cut short, or a header
\* with more bytes after it.
HdrInit ==
    /\ \/ \E m \in HdrMagics, mj \in HdrMajors, mn \in HdrMinors, f \in HdrFlags,
             sz \in HdrSizes :
             reader = Source(HeaderBytes(m, mj, mn, f, sz))
       \/ \E k \in 0..(HeaderLen - 1) :
             reader = Source(SubSeq(HeaderBytes(ID3, 3, 0, 0, <<0, 0, 7, 104>>), 1, k))
       \/ \E mj \in HdrMajors, f \in HdrFlags, sz \in HdrSizes :
             reader = Source(HeaderBytes(ID3, mj, 0, f, sz) \o HdrTrailer)
    /\ overflow_checks \in BOOLEAN
    /\ pc = "start"
    /\ call = NoCall
    /\ ret = NoRet
    /\ out = <<>>
    /\ tag = NoTag
    /\ hist = NoHist

Call_read_id3v2_header ==
    /\ pc = "start"
    /\ LET r == read_id3v2_header(reader, overflow_checks)
       IN  /\ ret' = [st |-> r.st, val |-> r.val]
           /\ reader' = r.s
    /\ call' = [op |-> "read_id3v2_header", arg |-> 0]
    /\ pc' = "done"
    /\ UNCHANGED <<overflow_checks, out, tag, hist>>

HdrNext == Call_read_id3v2_header

SpecHeader == HdrInit /\ [][HdrNext]_vars

HdrCalled == pc = "done" /\ call.op = "read_id3v2_header"

\* Bit `mask` (one bit) of a byte, by arithmetic.
BitSet(b, mask) == (b \div mask) % 2 = 1

\* C8: the outcomes of read_id3v2_header on a 10-byte input, in the order:
\* bad magic -> Unsupported; major or minor 0xFF -> Decode error; major
\* outside [2,4] -> Unsupported; major 2 with bit 0x40 -> Unsupported;
\* otherwise a Header with the version numbers and the size read.
C8_HeaderOutcomes ==
    HdrCalled /\ Len(reader.data) = HeaderLen =>
        LET d == reader.data IN
        IF SubSeq(d, 1, 3) # ID3 THEN ret.st = "unsupported"
        ELSE IF d[4] = 255 \/ d[5] = 255 THEN ret.st = "decode"
        ELSE IF d[4] \notin 2..4 THEN ret.st = "unsupported"
        ELSE IF d[4] = 2 /\ BitSet(d[6], 64) THEN ret.st = "unsupported"
        ELSE /\ ret.st = "ok"
             /\ ret.val.major_version = d[4]
             /\ ret.val.minor_version = d[5]
             /\ ret.val.size = Syncsafe28Value(SubSeq(d, 7, 10))

\* A header with major 0xFF (outside [2,4] as well) was refused as a Decode error.
C8_Witness ==
    /\ HdrCalled /\ Len(reader.data) = HeaderLen
    /\ SubSeq(reader.data, 1, 3) = ID3 /\ reader.data[4] = 255
    /\ ret.st = "decode"

\* The bits of the flags byte the major version defines.
DefinedFlags(major) == IF major = 2 THEN 192 ELSE IF major = 3 THEN 224 ELSE 240

\* C9: in every Header returned, unsynchronisation is bit 0x80; the extended
\* header and experimental flags are bits 0x40 and 0x20 for major >= 3 and
\* false for major 2; has_footer is bit 0x10 for major 4 and false otherwise;
\* the bits the version does not define change neither the outcome nor the
\* Header: the same input with those bits cleared gives the same result.
C9_FlagsGated ==
    HdrCalled /\ Len(reader.data) = HeaderLen /\ reader.data[4] \in 2..4 =>
        LET d == reader.data
            cleared == [d EXCEPT ![6] = BitAnd(d[6], DefinedFlags(d[4]))]
            r == read_id3v2_header(Source(cleared), overflow_checks)
        IN  /\ r.st = ret.st /\ r.val = ret.val
            /\ ret.st = "ok" =>
                 /\ ret.val.unsynchronisation = BitSet(d[6], 128)
                 /\ ret.val.has_extended_header = (d[4] >= 3 /\ BitSet(d[6], 64))
                 /\ ret.val.experimental = (d[4] >= 3 /\ BitSet(d[6], 32))
                 /\ ret.val.has_footer = (d[4] = 4 /\ BitSet(d[6], 16))

\* A v2.2 header with the bits 0x20 and 0x10 (and the low bits) set was
\* returned with neither flag surfaced.
C9_Witness ==
    /\ HdrCalled /\ Len(reader.data) = HeaderLen
    /\ reader.data[4] = 2 /\ reader.data[6] = 191
    /\ ret.st = "ok"
    /\ ~ret.val.experimental /\ ~ret.val.has_footer /\ ret.val.unsynchronisation

\* C16: read_id3v2_header consumes exactly 10 bytes whenever it returns a
\* Header, for every major version in [2,4] and every flags and size bytes;
\* the fields are read in the order magic (3), major, minor, flags, size (4):
\* each field is made of the bytes at its place, and a source that ends
\* early is read up to its end.
C16_HeaderConsumesTen ==
    HdrCalled =>
        /\ ret.st = "ok" =>
               /\ reader.pos = 10
               /\ SubSeq(reader.data, 1, 3) = ID3
               /\ ret.val.major_version = reader.data[4]
               /\ ret.val.major_version \in 2..4
               /\ ret.val.minor_version = reader.data[5]
               /\ ret.val.unsynchronisation = BitSet(reader.data[6], 128)
               /\ ret.val.size = Syncsafe28Value(SubSeq(reader.data, 7, 10))
        /\ ret.st = "io" => reader.pos = Len(reader.data) /\ reader.pos < 10
        /\ reader.pos <= 10

\* A header was returned from a source that goes on after it.
C16_Witness ==
    /\ HdrCalled /\ ret.st = "ok"
    /\ Len(reader.data) > 10 /\ reader.pos = 10
    /\ ret.val.major_version = 4 /\ ret.val.size = 1000

(***************************************************************************)
(* The extended headers.  An Option is a sequence: None is <<>>, Some(x)   *)
(* is <<x>>.                                                               *)
(***************************************************************************)
None == <<>>
Some(x) == <<x>>

ShrInt(x, n) == x \div Pow2(n)    \* x >> n on integers

NoExtendedHeader ==
    [padding_size |-> None, crc32 |-> None, is_update |-> None, restrictions |-> None]

\* Read the extended header of an ID3v2.3 tag.
read_id3v2p3_extended_header(s) ==
    LET with_crc(header, crc) ==
            IF crc.st # "ok" THEN Err(crc.st, crc.s)
            ELSE Ok(crc.s, [header EXCEPT !.crc32 = Some(crc.val)])
        with_padding_size(flags, padding_size) ==
            IF padding_size.st # "ok" THEN Err(padding_size.st, padding_size.s)
            ELSE IF BitAnd(flags, 32768) = 32768
                 THEN with_crc([NoExtendedHeader EXCEPT
                                   !.padding_size = Some(padding_size.val)],
                               read_u32(padding_size.s))
                 ELSE Ok(padding_size.s,
                         [NoExtendedHeader EXCEPT !.padding_size = Some(padding_size.val)])
        with_flags(flags) ==
            IF flags.st # "ok" THEN Err(flags.st, flags.s)
            ELSE with_padding_size(flags.val, read_u32(flags.s))
        with_size(size) ==
            IF size.st # "ok" THEN Err(size.st, size.s)
            ELSE with_flags(read_u16(size.s))
    IN  with_size(read_u32(s))

\* The five match expressions on the restrictions byte.  A value no arm
\* matches reaches unreachable!(), which panics in every build; the matches
\* are evaluated in the order written.
decode_restrictions(restrictions) ==
    LET ts == ShrInt(BitAnd(restrictions, 192), 6)
        te == ShrInt(BitAnd(restrictions, 64), 5)
        tf == ShrInt(BitAnd(restrictions, 24), 3)
        ie == ShrInt(BitAnd(restrictions, 4), 2)
        is == BitAnd(restrictions, 3)
        tag_size == CASE ts = 0 -> "Max128Frames1024KiB"
                      [] ts = 1 -> "Max64Frames128KiB"
                      [] ts = 2 -> "Max32Frames40KiB"
                      [] ts = 3 -> "Max32Frames4KiB"
                      [] OTHER -> "unreachable"
        text_encoding == CASE te = 0 -> "None"
                           [] te = 1 -> "Utf8OrIso88591"
                           [] OTHER -> "unreachable"
        text_field_size == CASE tf = 0 -> "None"
                             [] tf = 1 -> "Max1024Characters"
                             [] tf = 2 -> "Max128Characters"
                             [] tf = 3 -> "Max30Characters"
                             [] OTHER -> "unreachable"
        image_encoding == CASE ie = 0 -> "None"
                            [] ie = 1 -> "PngOrJpegOnly"
                            [] OTHER -> "unreachable"
        image_size == CASE is = 0 -> "None"
                        [] is = 1 -> "LessThan256x256"
                        [] is = 2 -> "LessThan64x64"
                        [] is = 3 -> "Exactly64x64"
                        [] OTHER -> "unreachable"
        fields == [tag_size |-> tag_size, text_encoding |-> text_encoding,
                   text_field_size |-> text_field_size,
                   image_encoding |-> image_encoding, image_size |-> image_size]
    IN  IF \E f \in DOMAIN fields : fields[f] = "unreachable"
        THEN [st |-> "abort", val |-> fields]
        ELSE [st |-> "ok", val |-> fields]

\* `if (flags & 0x10) == 0x10 { ... }` and the final Ok(header)
p4_restrictions(s, flags, header) ==
    LET with_decoded(s1, r) ==
            IF r.st # "ok" THEN Err(r.st, s1)
            ELSE Ok(s1, [header EXCEPT !.restrictions = Some(r.val)])
        with_restrictions(restrictions) ==
            IF restrictions.st # "ok" THEN Err(restrictions.st, restrictions.s)
            ELSE with_decoded(restrictions.s, decode_restrictions(restrictions.val))
        with_len(len) ==
            IF len.st # "ok" THEN Err(len.st, len.s)
            ELSE IF len.val # 1 THEN Err("decode", len.s)
            ELSE with_restrictions(read_u8(len.s))
    IN  IF BitAnd(flags, 16) = 16 THEN with_len(read_u8(s)) ELSE Ok(s, header)

\* `if (flags & 0x20) == 0x20 { ... }` and what follows it
p4_crc32(s, flags, header, checks) ==
    LET with_crc(crc) ==
            IF crc.st # "ok" THEN Err(crc.st, crc.s)
            ELSE p4_restrictions(crc.s, flags, [header EXCEPT !.crc32 = Some(crc.val)])
        with_len(len) ==
            IF len.st # "ok" THEN Err(len.st, len.s)
            ELSE IF len.val # 5 THEN Err("decode", len.s)
            ELSE with_crc(read_syncsafe_leq32(len.s, 32, checks))
    IN  IF BitAnd(flags, 32) = 32
        THEN with_len(read_u8(s))
        ELSE p4_restrictions(s, flags, header)

\* The same, is_update left as it was when the bit is set.
p4_is_update_unset(s, flags, header, checks) ==
    LET with_len(len) ==
            IF len.st # "ok" THEN Err(len.st, len.s)
            ELSE IF len.val # 1 THEN Err("decode", len.s)
            ELSE p4_crc32(len.s, flags, header, checks)
    IN  IF BitAnd(flags, 64) = 64
        THEN with_len(read_u8(s))
        ELSE p4_crc32(s, flags, header, checks)

\* `if (flags & 0x40) == 0x40 { ... }` and what follows it
p4_is_update(s, flags, header, checks) ==
    LET with_len(len) ==
            IF len.st # "ok" THEN Err(len.st, len.s)
            ELSE IF len.val # 1 THEN Err("decode", len.s)
            ELSE p4_crc32(len.s, flags, [header EXCEPT !.is_update = Some(TRUE)], checks)
    IN  IF BitAnd(flags, 64) = 64
        THEN with_len(read_u8(s))
        ELSE p4_crc32(s, flags, header, checks)

\* Read the extended header of an ID3v2.4 tag.
read_id3v2p4_extended_header(s, checks) ==
    LET with_flags(flags) ==
            IF flags.st # "ok" THEN Err(flags.st, flags.s)
            ELSE p4_is_update(flags.s, flags.val,
                              [NoExtendedHeader EXCEPT !.is_update = Some(FALSE)], checks)
        with_flag_len(flag_len) ==
            IF flag_len.st # "ok" THEN Err(flag_len.st, flag_len.s)
            ELSE IF flag_len.val # 1 THEN Err("decode", flag_len.s)
            ELSE with_flags(read_u8(flag_len.s))
        with_size(size) ==
            IF size.st # "ok" THEN Err(size.st, size.s)
            ELSE with_flag_len(read_u8(size.s))
    IN  with_size(read_syncsafe_leq32(s, 28, checks))

(***************************************************************************)
(* SpecExt: the two extended header decoders applied to inputs drawn from  *)
(* the sets below, whole or cut short, in both builds.                     *)
(***************************************************************************)
ExtSizes == {<<0, 0, 0, 6>>, <<127, 127, 127, 127>>}
P4FlagLens == {0, 1, 2}
P4Flags == {0, 16, 32, 48, 64, 80, 96, 112, 143, 255}
P4UpdateLens == {0, 1, 2}
P4CrcLens == {1, 5, 6}
P4Crcs == {<<0, 0, 0, 0, 0>>, <<15, 127, 1, 2, 127>>}
P4RestrictionLens == {0, 1, 2}
P4Restrictions == {0, 27, 64, 255}

\* A v2.4 extended header: the fields its flags announce, in their order.
P4Input(size, flag_len, flags, ulen, clen, crc, rlen, r) ==
    size \o <<flag_len, flags>>
         \o (IF BitSet(flags, 64) THEN <<ulen>> ELSE <<>>)
         \o (IF BitSet(flags, 32) THEN <<clen>> \o crc ELSE <<>>)
         \o (IF BitSet(flags, 16) THEN <<rlen, r>> ELSE <<>>)

P4Inputs ==
    {P4Input(sz, fl, f, ul, cl, crc, rl, r) :
        sz \in ExtSizes, fl \in P4FlagLens, f \in P4Flags, ul \in P4UpdateLens,
        cl \in P4CrcLens, crc \in P4Crcs, rl \in P4RestrictionLens, r \in P4Restrictions}
    \cup {P4Input(<<0, 0, 0, 6>>, 1, f, 1, 5, <<0, 0, 0, 0, 0>>, 1, r) :
            f \in {16, 80}, r \in Byte}

P3Flags == {<<0, 0>>, <<128, 0>>, <<0, 128>>, <<127, 255>>, <<255, 255>>}
P3Words == {<<0, 0, 0, 0>>, <<0, 0, 1, 0>>, <<255, 255, 255, 255>>}

P3Inputs ==
    {sz \o f \o pad \o crc : sz \in ExtSizes, f \in P3Flags, pad \in P3Words, crc \in P3Words}

Prefixes(d) == {SubSeq(d, 1, k) : k \in 0..Len(d)}

ExtInputs ==
    P4Inputs \cup P3Inputs
    \cup Prefixes(P4Input(<<0, 0, 0, 6>>, 1, 112, 1, 5, <<0, 0, 0, 0, 0>>, 1, 0))
    \cup Prefixes(<<0, 0, 0, 6, 128, 0, 0, 0, 0, 0, 1, 2, 3, 4>>)

ExtInit ==
    /\ reader \in {Source(d) : d \in ExtInputs}
    /\ overflow_checks \in BOOLEAN
    /\ pc = "start"
    /\ call = NoCall
    /\ ret = NoRet
    /\ out = <<>>
    /\ tag = NoTag
    /\ hist = NoHist

\* The call returns: its result, and the reader where it left it.
Returned(r) ==
    /\ ret' = [st |-> r.st, val |-> r.val]
    /\ reader' = r.s
    /\ pc' = "done"

Call_read_id3v2p3_extended_header ==
    /\ pc = "start"
    /\ Returned(read_id3v2p3_extended_header(reader))
    /\ call' = [op |-> "read_id3v2p3_extended_header", arg |-> 0]
    /\ UNCHANGED <<overflow_checks, out, tag, hist>>

Call_read_id3v2p4_extended_header ==
    /\ pc = "start"
    /\ Returned(read_id3v2p4_extended_header(reader, overflow_checks))
    /\ call' = [op |-> "read_id3v2p4_extended_header", arg |-> 0]
    /\ UNCHANGED <<overflow_checks, out, tag, hist>>

ExtNext ==
    \/ Call_read_id3v2p3_extended_header
    \/ Call_read_id3v2p4_extended_header

SpecExt == ExtInit /\ [][ExtNext]_vars

P4Called == pc = "done" /\ call.op = "read_id3v2p4_extended_header"

\* Where the restrictions byte of a v2.4 extended header lies when the
\* decoder gets to it (0 when it does not): after the size, the flag length
\* and the flags, the is-update length, and the CRC length and CRC.
P4RestrictionsAt(d) ==
    IF Len(d) < 6 \/ d[5] # 1 \/ ~BitSet(d[6], 16) THEN 0
    ELSE LET u == IF BitSet(d[6], 64) THEN 1 ELSE 0
             c == IF BitSet(d[6], 32) THEN 6 ELSE 0
             at == 6 + u + c + 2
         IN  IF /\ Len(d) >= at
                /\ (u = 1 => d[7] = 1)
                /\ (c = 6 => d[7 + u] = 5)
                /\ d[at - 1] = 1
             THEN at ELSE 0

\* C5: for every value of the restrictions byte the decoder yields a value
\* for each of the five fields and does not fail: whenever the v2.4 decoder
\* has read the restrictions byte, it returns an ExtendedHeader with the
\* five restrictions.  (Stated of the headers without a CRC, which the
\* decoder reads before the restrictions.)
C5_RestrictionsTotal ==
    P4Called /\ P4RestrictionsAt(reader.data) > 0 /\ ~BitSet(reader.data[6], 32) =>
        /\ ret.st = "ok"
        /\ ret.val.restrictions # None
        /\ DOMAIN ret.val.restrictions[1] =
             {"tag_size", "text_encoding", "text_field_size", "image_encoding", "image_size"}

\* The place of the first length byte of a v2.4 extended header that differs
\* from the length required, in the order flag length, is-update, CRC,
\* restrictions (0 when the input holds none, or ends before it).
P4Mismatch(d) ==
    IF Len(d) < 5 THEN 0
    ELSE IF d[5] # 1 THEN 5
    ELSE IF Len(d) < 6 THEN 0
    ELSE LET u == IF BitSet(d[6], 64) THEN 1 ELSE 0
             c == IF BitSet(d[6], 32) THEN 6 ELSE 0
         IN  IF u = 1 /\ Len(d) < 7 THEN 0
             ELSE IF u = 1 /\ d[7] # 1 THEN 7
             ELSE IF c = 6 /\ Len(d) < 7 + u THEN 0
             ELSE IF c = 6 /\ d[7 + u] # 5 THEN 7 + u
             ELSE IF Len(d) < 7 + u + c THEN 0
             ELSE IF BitSet(d[6], 16) /\ d[7 + u + c] # 1 THEN 7 + u + c
             ELSE 0

\* C10: every length mismatch of the v2.4 extended header is a Decode error,
\* the lengths being checked in the order update, CRC, restrictions; the
\* mismatching length byte is the last byte read and no ExtendedHeader is
\* returned.
C10_LengthMismatchIsDecodeError ==
    P4Called /\ P4Mismatch(reader.data) > 0 =>
        /\ ret.st = "decode"
        /\ reader.pos = P4Mismatch(reader.data)
        /\ ret.val = 0

\* The mismatch is that of the restrictions length and a CRC precedes it.
P4MismatchAfterCrc(d) ==
    /\ P4Mismatch(d) > 7
    /\ BitSet(d[6], 32)
    /\ P4Mismatch(d) = 7 + (IF BitSet(d[6], 64) THEN 1 ELSE 0) + 6

\* The part of C10 that holds: when no CRC is decoded before the mismatch,
\* or the build has no overflow checks.
P4MismatchWithoutCrc ==
    /\ P4Called
    /\ P4Mismatch(reader.data) > 0
    /\ (overflow_checks => ~P4MismatchAfterCrc(reader.data))
    => /\ ret.st = "decode"
       /\ reader.pos = P4Mismatch(reader.data)
       /\ ret.val = 0

\* The mask of each category, as the decoder applies it to the byte.
CategoryMask ==
    [tag_size |-> 192, text_encoding |-> 64, text_field_size |-> 24,
     image_encoding |-> 4, image_size |-> 3]

\* Two bytes that are equal in every bit outside the mask.
DifferOnlyIn(a, b, mask) ==
    \A k \in 0..7 : BitSet(mask, Pow2(k)) \/ (BitSet(a, Pow2(k)) <=> BitSet(b, Pow2(k)))

\* The categories in cats keep their decoded values when the restrictions
\* byte that was decoded is changed within the mask of another category.
Independent(cats) ==
    P4Called /\ P4RestrictionsAt(reader.data) > 0 /\ ret.st = "ok" =>
        \A cat \in cats, b \in Byte :
            DifferOnlyIn(reader.data[P4RestrictionsAt(reader.data)], b, CategoryMask[cat]) =>
                \A other \in DOMAIN CategoryMask \ {cat} :
                    decode_restrictions(b).val[other] = ret.val.restrictions[1][other]

\* C17: the five categories are decoded from disjoint bit ranges: of two
\* restrictions bytes that differ only in the bits of one category's mask,
\* the decoded values of the other four categories are equal.
C17_CategoriesIndependent == Independent(DOMAIN CategoryMask)

\* The part of C17 that holds: of the masks 0x18, 0x04 and 0x03.
LowCategoriesIndependent ==
    Independent({"text_field_size", "image_encoding", "image_size"})

\* The sizes an extended header may declare, for the same bytes after them.
DeclaredSizes == ExtSizes \cup {<<255, 255, 255, 255>>}

\* The input with its first four bytes, the declared size, replaced.
Resized(d, sz) == sz \o SubSeq(d, 5, Len(d))

\* A call on the other input makes the same result and consumes as much.
SameAs(r) == r.st = ret.st /\ r.val = ret.val /\ r.s.pos = reader.pos

\* C15: the fields of a decoded ExtendedHeader follow from the variant and
\* the flag bits.  Variant 3: 10 bytes consumed, 14 with flags bit 0x8000;
\* padding_size present; crc32 present iff bit 0x8000; is_update and
\* restrictions absent.  Variant 4: padding_size absent; is_update true iff
\* bit 0x40, false otherwise; crc32 present iff bit 0x20; restrictions
\* present iff bit 0x10.  The declared size changes neither the result nor
\* the number of bytes consumed.
C15_FieldPresence ==
    pc = "done" /\ ret.st = "ok" =>
        /\ call.op = "read_id3v2p3_extended_header" =>
               /\ reader.pos = (IF BitSet(reader.data[5], 128) THEN 14 ELSE 10)
               /\ ret.val.padding_size # None
               /\ ret.val.crc32 # None <=> BitSet(reader.data[5], 128)
               /\ ret.val.is_update = None /\ ret.val.restrictions = None
               /\ \A sz \in DeclaredSizes :
                      SameAs(read_id3v2p3_extended_header(
                                 Source(Resized(reader.data, sz))))
        /\ call.op = "read_id3v2p4_extended_header" =>
               /\ ret.val.padding_size = None
               /\ ret.val.is_update = Some(BitSet(reader.data[6], 64))
               /\ ret.val.crc32 # None <=> BitSet(reader.data[6], 32)
               /\ ret.val.restrictions # None <=> BitSet(reader.data[6], 16)
               /\ \A sz \in DeclaredSizes :
                      SameAs(read_id3v2p4_extended_header(
                                 Source(Resized(reader.data, sz)), overflow_checks))

\* A v2.4 extended header with the three flags set, all its fields decoded.
C15_Witness ==
    /\ P4Called /\ ret.st = "ok"
    /\ reader.data[6] = 112 /\ reader.pos = 15
    /\ ret.val.is_update = Some(TRUE)
    /\ ret.val.crc32 # None /\ ret.val.restrictions # None
    /\ ret.val.padding_size = None

(***************************************************************************)
(* decode_unsynchronisation: the one-shot decoder.                         *)
(***************************************************************************)
\* The loop `while src < len - 1`, on a buffer that is not empty.
RECURSIVE decode_loop(_, _, _)
decode_loop(buf, src, dst) ==
    IF src < Len(buf) - 1
    THEN LET buf1 == [buf EXCEPT ![dst + 1] = buf[src + 1]]
             src1 == src + 1
         IN  decode_loop(buf1,
                         IF buf1[src1] = 255 /\ buf1[src1 + 1] = 0 THEN src1 + 1 ELSE src1,
                         dst + 1)
    ELSE [buf |-> buf, src |-> src, dst |-> dst]

\* On an empty buffer `len - 1` overflows (len is a usize): with overflow
\* checks the subtraction panics; without them it wraps to the largest
\* usize, the loop is entered and buf[0] is out of range, which panics too.
decode_unsynchronisation(buf) ==
    IF Len(buf) = 0 THEN [st |-> "abort", val |-> <<>>]
    ELSE LET c == decode_loop(buf, 0, 0)
             d == IF c.src < Len(buf)
                  THEN [buf |-> [c.buf EXCEPT ![c.dst + 1] = c.buf[c.src + 1]],
                        dst |-> c.dst + 1]
                  ELSE [buf |-> c.buf, dst |-> c.dst]
         IN  [st |-> "ok", val |-> SubSeq(d.buf, 1, d.dst)]

(***************************************************************************)
(* SpecFilter: an UnsyncStream over a bounded stream, read by any sequence *)
(* of the calls of its Bytestream implementation.  A call that fails       *)
(* delivers nothing; the caller may go on calling.                         *)
(***************************************************************************)
FilterBytes == {0, 65, 255}

Min(a, b) == IF a < b THEN a ELSE b

\* The bytes the bounded stream lets through: the raw input of the filter.
RawInput == SubSeq(reader.data, 1, Min(reader.len, Len(reader.data)))

FilterInit ==
    /\ reader \in {UnsyncStream_new(ScopedStream_new(Source(d), Len(d))) :
                      d \in SeqsUpTo(FilterBytes, MaxRaw)}
    /\ overflow_checks = FALSE
    /\ pc = "reading"
    /\ call = NoCall
    /\ ret = NoRet
    /\ out = <<>>
    /\ tag = NoTag
    /\ hist = [k |-> "filter", skipped |-> FALSE, ref_st |-> "none", ref_pos |-> 0,
               ref_byte |-> 0]

\* What a read call leaves behind: the reader, the bytes delivered, the result.
Delivered(op, arg, r, bytes) ==
    /\ reader' = r.s
    /\ call' = [op |-> op, arg |-> arg]
    /\ ret' = [st |-> r.st, val |-> r.val]
    /\ out' = IF r.st = "ok" THEN out \o bytes ELSE out
    /\ hist' = [hist EXCEPT !.ref_st = "none", !.ref_pos = 0, !.ref_byte = 0]
    /\ UNCHANGED <<overflow_checks, pc, tag>>

Filter_read_byte ==
    /\ pc = "reading"
    /\ LET r == UnsyncStream_read_byte(reader)
       IN  Delivered("read_byte", 1, r, <<r.val>>)

Filter_read_double_bytes ==
    /\ pc = "reading"
    /\ LET r == UnsyncStream_read_double_bytes(reader)
       IN  Delivered("read_double_bytes", 2, r, r.val)

Filter_read_triple_bytes ==
    /\ pc = "reading"
    /\ LET r == UnsyncStream_read_triple_bytes(reader)
       IN  Delivered("read_triple_bytes", 3, r, r.val)

Filter_read_quad_bytes ==
    /\ pc = "reading"
    /\ LET r == UnsyncStream_read_quad_bytes(reader)
       IN  Delivered("read_quad_bytes", 4, r, r.val)

Filter_read_buf_bytes ==
    /\ pc = "reading"
    /\ \E len \in 0..MaxBuf :
         LET r == UnsyncStream_read_buf_bytes(reader, len)
         IN  Delivered("read_buf_bytes", len, r, r.val)

\* hist keeps, beside the skip, what `count` successive read_byte calls make
\* of the same state.
Filter_ignore_bytes ==
    /\ pc = "reading"
    /\ \E count \in 0..MaxSkip :
         LET r == UnsyncStream_ignore_bytes(reader, count)
             ref == UnsyncStream_read_bytes(reader, count, <<>>)
         IN  /\ reader' = r.s
             /\ call' = [op |-> "ignore_bytes", arg |-> count]
             /\ ret' = [st |-> r.st, val |-> r.val]
             /\ hist' = [hist EXCEPT !.skipped = TRUE, !.ref_st = ref.st,
                                     !.ref_pos = ref.s.pos, !.ref_byte = ref.s.byte]
    /\ UNCHANGED <<overflow_checks, pc, out, tag>>

FilterNext ==
    \/ Filter_read_byte
    \/ Filter_read_double_bytes
    \/ Filter_read_triple_bytes
    \/ Filter_read_quad_bytes
    \/ Filter_read_buf_bytes
    \/ Filter_ignore_bytes

SpecFilter == FilterInit /\ [][FilterNext]_vars

\* Only read calls have been made so far, and at least one.
OnlyReads == hist.k = "filter" /\ ~hist.skipped /\ call.op # "none"

\* C1: however the raw input is consumed through read_byte, the tuple reads
\* and read_buf_bytes, the bytes the successful calls delivered are the
\* prefix of that length of decode_unsynchronisation of the whole raw input.
C1_SplitInvariance ==
    OnlyReads =>
        LET dec == decode_unsynchronisation(RawInput)
        IN  /\ dec.st = "ok"
            /\ Len(out) <= Len(dec.val)
            /\ out = SubSeq(dec.val, 1, Len(out))

\* The part of C1 that holds: of every raw input that is not empty.
SplitInvarianceNonEmpty ==
    OnlyReads /\ RawInput # <<>> =>
        LET dec == decode_unsynchronisation(RawInput)
        IN  /\ dec.st = "ok"
            /\ Len(out) <= Len(dec.val)
            /\ out = SubSeq(dec.val, 1, Len(out))

\* C2: ignore_bytes(N) leaves the raw position and the last observed byte
\* where N successive read_byte calls leave them.
C2_SkipIsDecodedReads ==
    hist.k = "filter" /\ call.op = "ignore_bytes" /\ ret.st = "ok" =>
        /\ hist.ref_st = "ok"
        /\ reader.pos = hist.ref_pos
        /\ reader.byte = hist.ref_byte

(***************************************************************************)
(* read_id3v2 and read_id3v2_body.                                         *)
(***************************************************************************)
\* The streams read_id3v2 wraps around the reader, the header being read.
read_id3v2_streams_bound_with_header(s, header) ==
    LET scoped == ScopedStream_new(s, header.size + HeaderLen)
    IN  IF header.unsynchronisation /\ header.major_version < 4
        THEN UnsyncStream_new(scoped)
        ELSE scoped

\* The same, the filter wrapped whatever the major version.
read_id3v2_streams_unsync_any_version(s, header) ==
    LET scoped == ScopedStream_new(s, header.size)
    IN  IF header.unsynchronisation
        THEN UnsyncStream_new(scoped)
        ELSE scoped

read_id3v2_streams(s, header) ==
    LET scoped == ScopedStream_new(s, header.size)
    IN  IF header.unsynchronisation /\ header.major_version < 4
        THEN UnsyncStream_new(scoped)
        ELSE scoped

\* `if header.has_extended_header { match header.major_version { ... } }`
body_extended_header(s, header, checks) ==
    IF header.has_extended_header
    THEN CASE header.major_version = 3 -> read_id3v2p3_extended_header(s)
           [] header.major_version = 4 -> read_id3v2p4_extended_header(s, checks)
           [] OTHER -> Err("abort", s)
    ELSE Ok(s, NoExtendedHeader)

\* `let min_frame_size = match header.major_version { ... }` (0: unreachable!())
min_frame_size(header) ==
    CASE header.major_version = 2 -> 6
      [] header.major_version \in {3, 4} -> 10
      [] OTHER -> 0

(***************************************************************************)
(* SpecTag: read_id3v2 on a source that holds a tag header, a body and     *)
(* what follows the tag.  The frame readers (mod frames) are collaborators:*)
(* a frame read reads or skips at least one byte of the prepared stream    *)
(* and returns the frame, or fails: because a read of it fails, or because *)
(* the frame reader refuses the frame.                                     *)
(***************************************************************************)
\* The headers: the valid ones, one of an unsupported version, one that is no tag.
TagHeads == {<<ID3, 2>>, <<ID3, 3>>, <<ID3, 4>>, <<ID3, 5>>, <<<<73, 68, 52>>, 3>>}
TagFlags == {0, 64, 128, 192}
\* What a body begins with: nothing, a v2.4 extended header with
\* restrictions, one with a CRC, one with a wrong flag length, and a v2.3
\* extended header whose padding size holds a 0xFF, unsynchronised.
P3Prefix == <<0, 0, 0, 6, 0, 0, 0, 0, 255, 0, 0>>
BodyPrefixes == {<<>>, <<0, 0, 0, 6, 1, 16, 1, 27>>,
                 <<0, 0, 0, 6, 1, 32, 5, 0, 0, 0, 0, 1>>, <<0, 0, 0, 6, 2>>, P3Prefix}
BodyFillers == {<<0>>, <<65, 255, 0>>, <<255, 0>>}
\* The length of the source after the header, less Header.size: a source cut
\* short, and a source that goes on after the tag.
BodyExtra == {-1, 2}

\* n bytes: the prefix, then the filler repeated.
Body(prefix, filler, n) ==
    [i \in 1..n |-> IF i <= Len(prefix) THEN prefix[i]
                    ELSE filler[((i - Len(prefix) - 1) % Len(filler)) + 1]]

TagInit ==
    /\ \E h \in TagHeads, f \in TagFlags, sz \in 0..MaxTagSize,
          p \in BodyPrefixes, fl \in BodyFillers, x \in BodyExtra :
         /\ h \in {<<ID3, 2>>, <<ID3, 3>>, <<ID3, 4>>} \/ (f = 0 /\ sz = 0)
         /\ \/ p = <<>>
            \/ p # P3Prefix /\ h = <<ID3, 4>> /\ BitSet(f, 64)
            \/ p = P3Prefix /\ h = <<ID3, 3>> /\ BitSet(f, 64)
         /\ x = 2 \/ (fl = <<0>> /\ sz > 0)
         /\ reader = Source(HeaderBytes(h[1], h[2], 0, f, <<0, 0, 0, sz>>)
                            \o Body(p, fl, sz + x))
    /\ overflow_checks \in BOOLEAN
    /\ pc = "start"
    /\ call = NoCall
    /\ ret = NoRet
    /\ out = <<>>
    /\ tag = NoTag
    /\ hist = [k |-> "tag", frames |-> 0, avail |-> 0]

\* read_id3v2 returns
Return(st, s) ==
    /\ pc' = "done"
    /\ ret' = [st |-> st, val |-> 0]
    /\ reader' = s

\* read_id3v2 up to its call of read_id3v2_body
HeaderRead(r) ==
    IF r.st # "ok"
    THEN Return(r.st, r.s) /\ UNCHANGED tag
    ELSE /\ reader' = read_id3v2_streams(r.s, r.val)
         /\ tag' = [k |-> "tag", header |-> r.val, min_frame_size |-> 0]
         /\ pc' = "body"
         /\ ret' = [st |-> r.st, val |-> 0]

Tag_read_id3v2_header ==
    /\ pc = "start"
    /\ HeaderRead(read_id3v2_header(reader, overflow_checks))
    /\ call' = [op |-> "read_id3v2_header", arg |-> 0]
    /\ UNCHANGED <<overflow_checks, out, hist>>

\* read_id3v2_body up to its loop
ExtendedHeaderRead(r) ==
    IF r.st # "ok"
    THEN Return(r.st, r.s) /\ UNCHANGED tag
    ELSE IF min_frame_size(tag.header) = 0
    THEN Return("abort", r.s) /\ UNCHANGED tag
    ELSE /\ reader' = r.s
         /\ tag' = [tag EXCEPT !.min_frame_size = min_frame_size(tag.header)]
         /\ pc' = "loop"
         /\ ret' = [st |-> r.st, val |-> 0]

Body_extended_header ==
    /\ pc = "body"
    /\ ExtendedHeaderRead(body_extended_header(reader, tag.header, overflow_checks))
    /\ call' = [op |-> "extended_header", arg |-> 0]
    /\ UNCHANGED <<overflow_checks, out, hist>>

\* The reads of one frame read: n bytes, one by one, in bulk, or skipped.
FrameOps == {"read_byte", "read_buf_bytes", "ignore_bytes"}
FrameOpSizes == (1..MaxFrameOp) \cup {tag.min_frame_size}

read_frame(s, op, n) ==
    CASE op = "read_byte" -> read_bytes(s, n, <<>>)
      [] op = "read_buf_bytes" -> read_buf_bytes(s, n)
      [] op = "ignore_bytes" -> ignore_bytes(s, n)

\* What a frame read leaves behind.  hist keeps the number of frame reads
\* issued (1, or 2 for more) and the bytes available when this one was.
FrameRead(op, r) ==
    /\ call' = [op |-> op, arg |-> tag.header.major_version]
    /\ hist' = [hist EXCEPT !.frames = Min(hist.frames + 1, 2),
                            !.avail = bytes_available(reader)]
    /\ IF r.st = "ok"
       THEN reader' = r.s /\ ret' = [st |-> "ok", val |-> 0] /\ pc' = "check"
       ELSE Return(r.st, r.s)
    /\ UNCHANGED <<overflow_checks, out, tag>>

\* The head of the loop: the frame reader of the major version is called,
\* and returns a frame having read the stream.
Body_frame_read ==
    /\ pc = "loop"
    /\ tag.header.major_version \in {2, 3, 4}
    /\ \E op \in FrameOps, n \in FrameOpSizes : FrameRead(op, read_frame(reader, op, n))

\* The same call, the frame reader refusing the frame.
Body_frame_error ==
    /\ pc = "loop"
    /\ tag.header.major_version \in {2, 3, 4}
    /\ \E e \in {"decode", "unsupported"} : FrameRead("frame_error", Err(e, reader))

\* The same, the loop never left by its break.
Body_loop_check_never_breaks ==
    /\ pc = "check"
    /\ pc' = "loop" /\ UNCHANGED <<reader, ret>>
    /\ call' = [op |-> "loop_check", arg |-> 0]
    /\ UNCHANGED <<overflow_checks, out, tag, hist>>

\* `if reader.bytes_available() < min_frame_size { break; }` and Ok(())
Body_loop_check ==
    /\ pc = "check"
    /\ IF bytes_available(reader) < tag.min_frame_size
       THEN Return("ok", reader)
       ELSE pc' = "loop" /\ UNCHANGED <<reader, ret>>
    /\ call' = [op |-> "loop_check", arg |-> 0]
    /\ UNCHANGED <<overflow_checks, out, tag, hist>>

TagNext ==
    \/ Tag_read_id3v2_header
    \/ Body_extended_header
    \/ Body_frame_read
    \/ Body_frame_error
    \/ Body_loop_check

SpecTag == TagInit /\ [][TagNext]_vars

\* read_id3v2 runs: a call that has not returned takes its next step.  This
\* is the weak fairness of TagNext, WF_vars(TagNext), written out, a step
\* of TagNext being enabled exactly when the call has not returned.
SpecTagFair == SpecTag /\ ([]<>(pc = "done") \/ []<><<TagNext>>_vars)

\* C3: no frame read, the first one included, is issued when fewer bytes of
\* the bounded stream remain than the minimum frame size of the version.
C3_NoFrameReadBelowMinimum ==
    hist.k = "tag" /\ hist.frames > 0 => hist.avail >= tag.min_frame_size

\* The part of C3 that holds: of every frame read but the first.
LaterFrameReadsAboveMinimum ==
    hist.k = "tag" /\ hist.frames > 1 => hist.avail >= tag.min_frame_size

\* C4: once the header is read, at most 10 + Header.size bytes of the source
\* are consumed, whatever is read or skipped, through the filter or not; a
\* read that fails at the bound leaves what follows the tag unread.
C4_HardCeiling ==
    hist.k = "tag" /\ tag # NoTag =>
        /\ reader.pos <= HeaderLen + tag.header.size
        /\ reader.pos <= Len(reader.data)

\* A read through the filter, after a 0xFF, failed at the bound while the
\* source goes on: the bytes after the tag are left unread.
C4_Witness ==
    /\ hist.k = "tag" /\ tag # NoTag
    /\ pc = "done" /\ ret.st = "io"
    /\ reader.unsync /\ reader.byte = 255
    /\ tag.header.size > 0
    /\ reader.pos = HeaderLen + tag.header.size
    /\ Len(reader.data) > reader.pos

\* C18: the frame loop terminates.  With frame readers that fail or consume
\* at least one byte of the bounded stream, read_id3v2 eventually returns;
\* every frame read that returns a frame leaves fewer bytes available than
\* it found; and once fewer bytes than the minimum frame size remain after
\* a frame read, the loop is left and Ok returned.
C18_FrameLoopTerminates ==
    /\ <>(pc = "done")
    /\ [][pc = "loop" /\ pc' = "check" =>
              bytes_available(reader') < bytes_available(reader)]_vars
    /\ [][pc = "check" /\ bytes_available(reader) < tag.min_frame_size =>
              pc' = "done" /\ ret'.st = "ok"]_vars

\* The loop went round more than once and was left by its break.
C18_Witness ==
    /\ hist.k = "tag" /\ pc = "done" /\ ret.st = "ok"
    /\ call.op = "loop_check" /\ hist.frames = 2
    /\ bytes_available(reader) < tag.min_frame_size

\* The stuffed zero bytes among data[a + 1 .. b]: those that follow a 0xFF.
Dropped(data, a, b) ==
    Cardinality({i \in (a + 2)..b : data[i - 1] = 255 /\ data[i] = 0})

\* The extended header of the tag has been read, and no frame yet.
ExtendedHeaderDone ==
    /\ hist.k = "tag" /\ tag # NoTag
    /\ call.op = "extended_header" /\ ret.st = "ok"
    /\ tag.header.has_extended_header

\* C14: the body is read through the filter iff Header.unsynchronisation
\* and major_version < 4; the bounded stream starts after the 10 header
\* bytes with the limit Header.size; and the extended header of a v2.3 tag
\* is read before any frame read, through the filter when it is active: of
\* the bytes it consumed, the stuffed zeros are beside its 10 bytes.
C14_StreamWrapping ==
    hist.k = "tag" /\ tag # NoTag =>
        /\ reader.unsync <=>
               (tag.header.unsynchronisation /\ tag.header.major_version < 4)
        /\ tag.header.major_version = 4 => ~reader.unsync
        /\ reader.scoped /\ reader.len = tag.header.size
        /\ reader.pos = HeaderLen + reader.read
        /\ pc = "body" => reader.read = 0
        /\ call.op = "extended_header" => hist.frames = 0
        /\ ExtendedHeaderDone /\ tag.header.major_version = 3 =>
               reader.read = 10 + (IF reader.unsync
                                   THEN Dropped(reader.data, HeaderLen, reader.pos)
                                   ELSE 0)

\* A v2.3 tag with the unsynchronisation flag: its extended header was read
\* through the filter, which dropped a stuffed zero.
C14_Witness ==
    /\ ExtendedHeaderDone /\ tag.header.major_version = 3
    /\ reader.unsync /\ hist.frames = 0
    /\ reader.read = 11 /\ reader.pos = HeaderLen + 11

\* C19: the unreachable!() arms of read_id3v2_body are never reached from
\* read_id3v2: the Header it is called with has a major version of 2, 3 or
\* 4, and has_extended_header only with 3 or 4, so the extended header
\* dispatch and the selection of the minimum frame size match a defined
\* arm; a call that aborts in read_id3v2_body aborts inside the decoder of
\* the v2.4 extended header.
C19_NoUnreachableArm ==
    hist.k = "tag" /\ tag # NoTag =>
        /\ tag.header.major_version \in {2, 3, 4}
        /\ tag.header.has_extended_header => tag.header.major_version \in {3, 4}
        /\ min_frame_size(tag.header) # 0
        /\ pc \in {"loop", "check"} => tag.min_frame_size = min_frame_size(tag.header)
        /\ ret.st = "abort" =>
               /\ call.op = "extended_header"
               /\ tag.header.has_extended_header /\ tag.header.major_version = 4

\* A v2.4 tag with an extended header: the dispatch took the arm of major
\* version 4 and the minimum frame size is that of v2.4.
C19_Witness ==
    /\ ExtendedHeaderDone /\ pc = "loop"
    /\ tag.header.major_version = 4 /\ tag.min_frame_size = 10
    /\ reader.read = 8

(***************************************************************************)
(* SpecDecode: decode_unsynchronisation run statement by statement on a    *)
(* buffer, then the same bytes read to their end through an UnsyncStream,  *)
(* one read_byte at a time.  The buffer is a byte sequence as it is, or    *)
(* one the byte-stuffing encoder made.                                     *)
(*   hist = [k, plain, stuffed, buf, src, dst]: the sequence the buffer    *)
(*   was made of and whether it was stuffed; the buffer and the cursors.   *)
(*   reader.data keeps the buffer as it was given; out, the bytes the      *)
(*   stream delivered; ret, what decode_unsynchronisation returned.        *)
(***************************************************************************)
MaxDecodeLen == 4
DecodeBytes == {0, 65, 255}

\* The encoder of the unsynchronisation scheme: a 0x00 after every 0xFF.
RECURSIVE Stuff(_)
Stuff(x) ==
    IF x = <<>> THEN <<>>
    ELSE (IF Head(x) = 255 THEN <<255, 0>> ELSE <<Head(x)>>) \o Stuff(Tail(x))

\* No 0xFF is followed by a 0x00.
NoPairs(buf) == \A i \in 1..(Len(buf) - 1) : ~(buf[i] = 255 /\ buf[i + 1] = 0)

DecodeInit ==
    /\ \E x \in SeqsUpTo(DecodeBytes, MaxDecodeLen), stuffed \in BOOLEAN :
         LET buf == IF stuffed THEN Stuff(x) ELSE x
         IN  /\ reader = UnsyncStream_new(ScopedStream_new(Source(buf), Len(buf)))
             /\ hist = [k |-> "decode", plain |-> x, stuffed |-> stuffed,
                        buf |-> buf, src |-> 0, dst |-> 0]
    /\ overflow_checks \in BOOLEAN
    /\ pc = "loop"
    /\ call = NoCall
    /\ ret = NoRet
    /\ out = <<>>
    /\ tag = NoTag

\* buf[i] of the code is in range
InRange(buf, i) == 0 <= i /\ i < Len(buf)

\* The body of the loop: the copy, the two increments and the test of the
\* pair.  An index out of range panics in every build.
decode_body(buf, src, dst) ==
    IF ~InRange(buf, src) \/ ~InRange(buf, dst)
    THEN [st |-> "abort", buf |-> buf, src |-> src, dst |-> dst]
    ELSE LET buf1 == [buf EXCEPT ![dst + 1] = buf[src + 1]]
             src1 == src + 1
         IN  IF ~InRange(buf1, src1)
             THEN [st |-> "abort", buf |-> buf1, src |-> src1, dst |-> dst + 1]
             ELSE [st |-> "ok", buf |-> buf1, dst |-> dst + 1,
                   src |-> IF buf1[src1] = 255 /\ buf1[src1 + 1] = 0
                           THEN src1 + 1 ELSE src1]

DecodeStepped(c) ==
    /\ hist' = [hist EXCEPT !.buf = c.buf, !.src = c.src, !.dst = c.dst]
    /\ IF c.st = "ok"
       THEN UNCHANGED <<pc, ret>>
       ELSE pc' = "stream" /\ ret' = [st |-> "abort", val |-> <<>>]

\* `while src < len - 1 { ... }`: one test of the condition, and the body.
\* len is a usize: for an empty buffer `len - 1` overflows.  With overflow
\* checks the subtraction panics; without them it wraps to the largest
\* usize and the body is entered.
Decode_loop ==
    /\ pc = "loop"
    /\ IF Len(hist.buf) = 0 /\ overflow_checks
       THEN pc' = "stream" /\ ret' = [st |-> "abort", val |-> <<>>] /\ UNCHANGED hist
       ELSE IF Len(hist.buf) = 0 \/ hist.src < Len(hist.buf) - 1
       THEN DecodeStepped(decode_body(hist.buf, hist.src, hist.dst))
       ELSE pc' = "tail" /\ UNCHANGED <<hist, ret>>
    /\ call' = [op |-> "decode_unsynchronisation", arg |-> Len(hist.buf)]
    /\ UNCHANGED <<reader, overflow_checks, out, tag>>

\* `if src < len { buf[dst] = buf[src]; dst += 1; }` and `&mut buf[..dst]`
decode_tail(buf, src, dst) ==
    IF src < Len(buf)
    THEN [buf |-> [buf EXCEPT ![dst + 1] = buf[src + 1]], src |-> src, dst |-> dst + 1]
    ELSE [buf |-> buf, src |-> src, dst |-> dst]

DecodeReturned(c) ==
    /\ hist' = [hist EXCEPT !.buf = c.buf, !.src = c.src, !.dst = c.dst]
    /\ ret' = [st |-> "ok", val |-> SubSeq(c.buf, 1, c.dst)]

Decode_tail ==
    /\ pc = "tail"
    /\ DecodeReturned(decode_tail(hist.buf, hist.src, hist.dst))
    /\ pc' = "stream"
    /\ call' = [op |-> "decode_unsynchronisation", arg |-> Len(hist.buf)]
    /\ UNCHANGED <<reader, overflow_checks, out, tag>>

StreamRead(r) ==
    /\ reader' = r.s
    /\ IF r.st = "ok"
       THEN out' = Append(out, r.val) /\ UNCHANGED pc
       ELSE pc' = "done" /\ UNCHANGED out

\* One read_byte of the stream; the read that fails is the end of it.
Stream_read_byte ==
    /\ pc = "stream"
    /\ StreamRead(UnsyncStream_read_byte(reader))
    /\ call' = [op |-> "read_byte", arg |-> 1]
    /\ UNCHANGED <<overflow_checks, ret, tag, hist>>

DecodeNext ==
    \/ Decode_loop
    \/ Decode_tail
    \/ Stream_read_byte

SpecDecode == DecodeInit /\ [][DecodeNext]_vars

\* decode_unsynchronisation has returned or aborted
Decoded == hist.k = "decode" /\ pc \in {"stream", "done"}

\* The statements above make what the function decode_unsynchronisation makes.
DecodeStepsAreTheFunction ==
    Decoded => [st |-> ret.st, val |-> ret.val] = decode_unsynchronisation(reader.data)

\* C13: for every buffer length, 0 and 1 included, decode_unsynchronisation
\* completes without an index out of range or an arithmetic underflow, keeps
\* dst <= src <= len at every step, and returns a prefix of the buffer no
\* longer than the buffer was.
C13_DecodeSafe ==
    hist.k = "decode" =>
        /\ ret.st # "abort"
        /\ hist.dst <= hist.src /\ hist.src <= Len(hist.buf)
        /\ Decoded => /\ ret.val = SubSeq(hist.buf, 1, hist.dst)
                      /\ Len(ret.val) <= Len(reader.data)

\* The part of C13 that holds, of every buffer that is not empty: the
\* cursors are ordered while the loop runs, the copy after the loop moves
\* the write cursor alone (to at most src + 1), and what is returned is a
\* prefix of the buffer no longer than the buffer was.
DecodeSafeNonEmpty ==
    hist.k = "decode" /\ Len(reader.data) > 0 =>
        /\ ret.st # "abort"
        /\ hist.src <= Len(hist.buf)
        /\ pc \in {"loop", "tail"} => hist.dst <= hist.src
        /\ Decoded => /\ hist.dst <= hist.src + 1 /\ hist.dst <= Len(hist.buf)
                      /\ ret.val = SubSeq(hist.buf, 1, hist.dst)
                      /\ Len(ret.val) <= Len(reader.data)

\* C11: decode_unsynchronisation is the identity on decoded data: a buffer
\* with no 0xFF followed by 0x00 is returned unchanged, and so is the result
\* when the function is applied to it once more.
C11_DecodeIdentity ==
    Decoded /\ NoPairs(reader.data) =>
        /\ ret.st = "ok" /\ ret.val = reader.data
        /\ decode_unsynchronisation(ret.val) = [st |-> "ok", val |-> reader.data]

\* The part of C11 that holds: of every such buffer that is not empty.
DecodeIdentityNonEmpty ==
    Decoded /\ NoPairs(reader.data) /\ Len(reader.data) > 0 =>
        /\ ret.st = "ok" /\ ret.val = reader.data
        /\ decode_unsynchronisation(ret.val) = [st |-> "ok", val |-> reader.data]

\* C12: for every byte sequence x, decode_unsynchronisation(Stuff(x)) = x,
\* and Stuff(x) read to its end through UnsyncStream::read_byte delivers x:
\* the zero bytes the encoder inserted are dropped and no other byte is.
C12_RoundTrip ==
    hist.k = "decode" /\ hist.stuffed =>
        /\ Decoded => ret.st = "ok" /\ ret.val = hist.plain
        /\ Len(out) <= Len(hist.plain) /\ out = SubSeq(hist.plain, 1, Len(out))
        /\ pc = "done" => out = hist.plain

\* The part of C12 that holds: the stream delivers x for every x, and the
\* function returns x for every x that is not empty.
RoundTripNonEmpty ==
    hist.k = "decode" /\ hist.stuffed =>
        /\ Decoded /\ hist.plain # <<>> => ret.st = "ok" /\ ret.val = hist.plain
        /\ Len(out) <= Len(hist.plain) /\ out = SubSeq(hist.plain, 1, Len(out))
        /\ pc = "done" => out = hist.plain

====
